---- MODULE Spec2Model ----
(***************************************************************************)
(* Model of cobmo/optimization_problem.py: class OptimizationProblem.      *)
(*                                                                         *)
(* __init__ formulates a linear program over a building model (variables,  *)
(* a constraint list, operation and investment cost); solve() hands it to  *)
(* the solver and extracts the trajectories, the costs and the storage     *)
(* size.                                                                   *)
(*                                                                         *)
(* Representation.                                                         *)
(*  - A name (output, state, control, storage type) is the sequence of the *)
(*    words that "_" separates: 'grid_electric_power' is                   *)
(*    <<"grid","electric","power">>.  Python's `sub in name` is Contains.  *)
(*  - A timestep is a whole number of hours since the first timestep.      *)
(*  - Python None for an optional time or factor parameter is NoneValue.   *)
(*  - A pyomo expression is a record [op, t, name, arg]; a constraint is a *)
(*    record [lhs, rel, rhs] of two expressions and "==", ">=" or "<=".    *)
(*  - A floating point factor is the fraction [num, den].                  *)
(*  - A pandas Series is [id, data]: id is the identity of the object, so  *)
(*    that two references to one object can be told from two objects.      *)
(***************************************************************************)
EXTENDS Integers, Sequences, FiniteSets, TLC

\* ------------------------------------------------------------------ bounds
\* Longest horizon (number of timesteps) of a building model.
MaxN == 3

\* ------------------------------------------------------------ sequences
Range(s) == {s[i] : i \in 1..Len(s)}

RECURSIVE Flatten(_)
\* Concatenation of a sequence of sequences: the order a nested for loop adds.
Flatten(ss) == IF ss = <<>> THEN <<>> ELSE Head(ss) \o Flatten(Tail(ss))

\* Python `sub in name` on "_"-separated words.
Contains(sub, name) ==
    \E i \in 0..(Len(name) - Len(sub)) :
        \A j \in 1..Len(sub) : name[i + j] = sub[j]

\* Python None for an optional timestamp or factor.
NoneValue == 0 - 1

\* ------------------------------------------------------------ names
grid_electric_power == <<"grid", "electric", "power">>
zone_temperature == <<"zone", "temperature">>
storage_state_of_charge == <<"sensible", "thermal", "storage", "state", "of", "charge">>
storage_to_zone_electric_power == <<"battery", "storage", "to", "zone", "electric", "power">>
storage_charge_electric_power == <<"battery", "storage", "charge", "electric", "power">>

\* The output lists of the building models considered.
OutputLists ==
    { <<zone_temperature, grid_electric_power>>,
      <<grid_electric_power, storage_state_of_charge, storage_to_zone_electric_power>>,
      <<zone_temperature, storage_charge_electric_power, grid_electric_power,
        storage_state_of_charge>> }

StateList == << <<"zone", "temperature">>, <<"storage", "state", "of", "charge">> >>
ControlList == << <<"zone", "generic", "heat", "thermal", "power">> >>

\* scenarios['building_storage_type'] of the building models considered.
StorageTypes ==
    { <<"default", "sensible", "thermal", "storage">>,
      <<"default", "battery", "storage">>,
      <<"default", "storage">> }

\* Timestep lengths in hours: an hour and a day.
TimestepDeltas == {1, 24}

\* building.timesteps: N equally spaced timesteps.
Timesteps(n, delta) == [k \in 1..n |-> (k - 1) * delta]

\* building.electricity_price_timeseries['price'] of the building models.
BuildingPrice(ts) == [t \in Range(ts) |-> t + 2]

Buildings ==
    { [ timesteps |-> Timesteps(n, delta),
        states |-> StateList,
        controls |-> ControlList,
        outputs |-> outs,
        building_storage_type |-> st,
        storage_lifetime |-> 2,
        electricity_price_timeseries |->
            [id |-> 0, data |-> BuildingPrice(Timesteps(n, delta))] ] :
      n \in 1..MaxN, delta \in TimestepDeltas, outs \in OutputLists, st \in StorageTypes }

\* ------------------------------------------------------------ problem types
DocumentedTypes ==
    { "operation", "storage_planning", "storage_planning_baseline", "load_reduction",
      "price_sensitivity", "maximum_load", "minimum_load" }

\* The problem_type strings passed to __init__: the documented ones and one other.
ProblemTypes == DocumentedTypes \cup {"operation_baseline"}


\* ------------------------------------------------------------ expressions
Expr(op, t, name, arg) == [op |-> op, t |-> t, name |-> name, arg |-> arg]

\* problem.variable_<family>[t, name]
Var(family, t, name) == Expr(family, t, name, "")

\* problem.variable_<family>[0]
ScalarVar(family) == Expr(family, 0, <<>>, "")

\* A float literal.
Literal(text) == Expr("literal", 0, <<>>, text)

Constraint(lhs, rel, rhs) == [lhs |-> lhs, rel |-> rel, rhs |-> rhs]

\* ------------------------------------------------------------ variables declared
\* What problem.variable_storage_size is after lines 59-75.
StorageSizeAttribute(pt) ==
    IF pt = "storage_planning" THEN "Var"
    ELSE IF pt = "storage_planning_baseline" THEN "[0.0]"
    ELSE "absent"

\* The pyomo Var components declared on the model (lines 44-80).
DeclaredVariables(pt) ==
    {"variable_state_vector", "variable_control_vector", "variable_output_vector"}
    \cup (IF pt = "storage_planning"
          THEN {"variable_storage_size", "variable_storage_peak_power",
                "variable_storage_exists"}
          ELSE {})
    \cup (IF pt = "load_reduction" THEN {"variable_load_reduction"} ELSE {})

\* ------------------------------------------------------------ dynamics
\* Lines 86-91.
InitialStateConstraints(b) ==
    [ i \in 1..Len(b.states) |->
        Constraint(Var("variable_state_vector", b.timesteps[1], b.states[i]), "==",
                   Expr("state_vector_initial", 0, b.states[i], "")) ]

\* Line 95: timesteps[1] - timesteps[0] (needs two timesteps).
TimestepDelta(b) == b.timesteps[2] - b.timesteps[1]

\* Line 97: timesteps[:-1].
AllButLast(ts) == SubSeq(ts, 1, Len(ts) - 1)

\* Mutant of NextTimestep: the equation defines the state of its own timestep.
NextTimestepSame(timestep, timestep_delta) == timestep

\* Line 99: the timestep whose state the equation of `timestep` defines.
NextTimestep(timestep, timestep_delta) == timestep + timestep_delta

\* Line 99: indexing variable_state_vector outside timesteps raises KeyError.
StateEquationKeyError(b) ==
    \E t \in Range(AllButLast(b.timesteps)) :
        NextTimestep(t, TimestepDelta(b)) \notin Range(b.timesteps)

\* Lines 96-118: state[t + delta] == A state[t] + B control[t] + E disturbance[t].
StateEquationConstraints(b) ==
    Flatten([ i \in 1..Len(b.states) |->
        [ k \in 1..Len(AllButLast(b.timesteps)) |->
            Constraint(
                Var("variable_state_vector",
                    NextTimestep(b.timesteps[k], TimestepDelta(b)), b.states[i]),
                "==",
                Expr("state_equation", b.timesteps[k], b.states[i], "")) ] ])

\* Lines 121-143: output[t] == C state[t] + D control[t] + F disturbance[t].
OutputEquationConstraints(b) ==
    Flatten([ i \in 1..Len(b.outputs) |->
        [ k \in 1..Len(b.timesteps) |->
            Constraint(
                Var("variable_output_vector", b.timesteps[k], b.outputs[i]),
                "==",
                Expr("output_equation", b.timesteps[k], b.outputs[i], "")) ] ])

\* ------------------------------------------------------------ output bounds
\* Mutant of IsPinned: temperature outputs are pinned under every problem type.
IsPinnedAnyProblem(pt, output) == Contains(<<"temperature">>, output)

\* Line 151: the outputs the maximum_load problem pins.
IsPinned(pt, output) == Contains(<<"temperature">>, output) /\ pt = "maximum_load"

\* Lines 151-165.
MinimumConstraints(b, pt, timestep, output) ==
    IF IsPinned(pt, output)
    THEN IF timestep = b.timesteps[1]
         THEN <<>>
         ELSE << Constraint(Var("variable_output_vector", timestep, output), "==",
                    Expr("output_constraint_timeseries_minimum", timestep, output, "")) >>
    ELSE << Constraint(Var("variable_output_vector", timestep, output), ">=",
                Expr("output_constraint_timeseries_minimum", timestep, output, "")) >>

\* Lines 168-171.
IsStorageBounded(pt, output) ==
    /\ (pt = "storage_planning" \/ pt = "storage_planning_baseline")
    /\ Contains(<<"state", "of", "charge">>, output)

\* variable_storage_size[0] * parameter: a product with the pyomo variable, or
\* with the float 0.0 of the baseline list, which is the float 0.0.
StorageSizeTimes(pt, parameter) ==
    IF StorageSizeAttribute(pt) = "[0.0]"
    THEN Literal("0.0")
    ELSE Expr("variable_storage_size_times", 0, <<>>, parameter)

\* Lines 173-186: no branch for a storage type that is neither.
StorageBoundConstraints(b, pt, timestep, output) ==
    IF Contains(<<"sensible">>, b.building_storage_type)
    THEN << Constraint(Var("variable_output_vector", timestep, output), "<=",
                StorageSizeTimes(pt, "water_density")) >>
    ELSE IF Contains(<<"battery">>, b.building_storage_type)
    THEN << Constraint(Var("variable_output_vector", timestep, output), "<=",
                StorageSizeTimes(pt, "storage_battery_depth_of_discharge")) >>
    ELSE <<>>

\* Lines 168-192.
MaximumConstraints(b, pt, timestep, output) ==
    IF IsStorageBounded(pt, output)
    THEN StorageBoundConstraints(b, pt, timestep, output)
    ELSE << Constraint(Var("variable_output_vector", timestep, output), "<=",
                Expr("output_constraint_timeseries_maximum", timestep, output, "")) >>

\* Lines 146-192.
BoundConstraints(b, pt) ==
    Flatten([ i \in 1..Len(b.outputs) |->
        Flatten([ k \in 1..Len(b.timesteps) |->
            MinimumConstraints(b, pt, b.timesteps[k], b.outputs[i])
            \o MaximumConstraints(b, pt, b.timesteps[k], b.outputs[i]) ]) ])

\* ------------------------------------------------------------ auxiliary constraints
\* Lines 227, 235, 276: an electric power output that is no storage-to-zone transfer.
IsGridDraw(output) ==
    /\ Contains(<<"electric", "power">>, output)
    /\ ~Contains(<<"storage", "to", "zone">>, output)

\* Lines 196-214: peak power and existence constraints, per timestep.
StoragePlanningConstraints(b) ==
    Flatten([ k \in 1..Len(b.timesteps) |->
        << Constraint(Expr("sum_storage_charge_electric_power", b.timesteps[k], <<>>, ""),
                      "<=", ScalarVar("variable_storage_peak_power")),
           Constraint(ScalarVar("variable_storage_size"), "<=",
                      Expr("variable_storage_exists_times", 0, <<>>, "1.0e100")) >> ])

\* Lines 219-222.
InReductionWindow(timestep, start, end) == timestep >= start /\ timestep < end

\* Lines 219-239, one timestep: comparing a timestamp with None raises TypeError
\* (`and` does not evaluate its right side when the left is false); None.loc
\* raises AttributeError once an output is summed.
LoadReductionErrorAt(b, timestep, start, end, reference) ==
    IF start = NoneValue THEN "TypeError"
    ELSE IF ~(timestep >= start) THEN "none"
    ELSE IF end = NoneValue THEN "TypeError"
    ELSE IF ~(timestep < end) THEN "none"
    ELSE IF reference = "None" /\ (\E i \in 1..Len(b.outputs) : IsGridDraw(b.outputs[i]))
    THEN "AttributeError"
    ELSE "none"

\* Lines 218-239: the error of the first timestep that raises one.
LoadReductionError(b, start, end, reference) ==
    LET bad == { k \in 1..Len(b.timesteps) :
                   LoadReductionErrorAt(b, b.timesteps[k], start, end, reference) # "none" }
    IN  IF bad = {} THEN "none"
        ELSE LoadReductionErrorAt(
                 b, b.timesteps[CHOOSE k \in bad : \A j \in bad : k <= j],
                 start, end, reference)

\* Lines 218-239.
LoadReductionConstraints(b, start, end) ==
    Flatten([ k \in 1..Len(b.timesteps) |->
        IF InReductionWindow(b.timesteps[k], start, end)
        THEN << Constraint(Expr("sum_grid_draw", b.timesteps[k], <<>>, ""), "==",
                    Expr("reduced_reference", b.timesteps[k], <<>>,
                         "variable_load_reduction")) >>
        ELSE <<>> ])

\* Lines 195-239.
AuxiliaryConstraints(b, pt, start, end) ==
    IF pt = "storage_planning" THEN StoragePlanningConstraints(b)
    ELSE IF pt = "load_reduction" THEN LoadReductionConstraints(b, start, end)
    ELSE <<>>

\* Lines 83-239: the constraint list, in the order of the add calls.
AllConstraints(b, pt, start, end) ==
    InitialStateConstraints(b)
    \o StateEquationConstraints(b)
    \o OutputEquationConstraints(b)
    \o BoundConstraints(b, pt)
    \o AuxiliaryConstraints(b, pt, start, end)

\* ------------------------------------------------------------ cost
\* pd.to_timedelta('1y') in seconds (365.2425 days).
YearSeconds == 31556952

\* Line 252: levels at CREATE Tower.
Levels == 14

\* Lines 246-261.
OperationCostFactor(b, pt) ==
    IF pt = "storage_planning" \/ pt = "storage_planning_baseline"
    THEN [ num |-> YearSeconds * b.storage_lifetime * Levels,
           den |-> (TimestepDelta(b) * 3600) * Len(b.timesteps) ]
    ELSE IF pt = "load_reduction"
    THEN [num |-> 1, den |-> 1000000]
    ELSE [num |-> 1, den |-> 1]

\* Line 279: Timedelta.seconds, the seconds of the timedelta within its last day.
TimedeltaSeconds(delta_hours) == (delta_hours * 3600) % 86400

\* Mutant of SeriesCopy: the instance keeps a reference to the building's series.
SeriesAlias(series) == series

\* Line 37: Series.copy() is a new object with the same data.
SeriesCopy(series) == [id |-> series.id + 1, data |-> series.data]

\* Line 265: reading .at[timestep, 'price'] raises KeyError for a label that is
\* not in the index; multiplying the price by None raises TypeError.
PriceSensitivityError(series, timestep, factor) ==
    IF timestep \notin DOMAIN series.data THEN "KeyError"
    ELSE IF factor = NoneValue THEN "TypeError"
    ELSE "none"

\* Lines 265-267: .at[timestep, 'price'] *= factor.
PerturbedPrice(data, timestep, factor) ==
    [t \in DOMAIN data |-> IF t = timestep THEN data[t] * factor ELSE data[t]]

\* The series `other` after `data` was written to the object `written`.
AfterWrite(other, written, data) ==
    IF other.id = written.id THEN [other EXCEPT !.data = data] ELSE other

\* Mutant of IsLoadProblem: the priced objective only for the problem types
\* known to be priced, the pure power objective otherwise.
IsLoadProblemByDefault(pt) ==
    pt \notin {"operation", "storage_planning", "storage_planning_baseline",
               "load_reduction", "price_sensitivity"}

\* Lines 272-273.
IsLoadProblem(pt) == pt \in {"minimum_load", "maximum_load"}

\* Lines 272-282: what one (timestep, output) pair adds to operation_cost:
\* the output variable alone, or the variable times seconds / divisor (W in
\* kWh) times price times factor.
OperationCostTerms(b, pt, price, timestep, output) ==
    IF IsLoadProblem(pt)
    THEN IF output = grid_electric_power
         THEN << [ timestep |-> timestep, output |-> output, weighted |-> FALSE,
                   seconds |-> 0, divisor |-> 1, price |-> 0,
                   factor |-> [num |-> 1, den |-> 1] ] >>
         ELSE <<>>
    ELSE IF IsGridDraw(output)
         THEN << [ timestep |-> timestep, output |-> output, weighted |-> TRUE,
                   seconds |-> TimedeltaSeconds(TimestepDelta(b)),
                   divisor |-> 3600 * 1000,
                   price |-> price[timestep],
                   factor |-> OperationCostFactor(b, pt) ] >>
         ELSE <<>>

\* Lines 270-282.
OperationCost(b, pt, price) ==
    Flatten([ k \in 1..Len(b.timesteps) |->
        Flatten([ i \in 1..Len(b.outputs) |->
            OperationCostTerms(b, pt, price, b.timesteps[k], b.outputs[i]) ]) ])

InvestmentTerm(variable, divisor, cost) ==
    [variable |-> variable, divisor |-> divisor, cost |-> cost]

\* Lines 285-308.
InvestmentCost(b, pt) ==
    IF pt = "storage_planning"
    THEN IF Contains(<<"sensible">>, b.building_storage_type)
         THEN << InvestmentTerm("variable_storage_size", 1,
                                "storage_planning_energy_installation_cost"),
                 InvestmentTerm("variable_storage_peak_power", 1000,
                                "storage_planning_power_installation_cost"),
                 InvestmentTerm("variable_storage_exists", 1,
                                "storage_planning_fixed_installation_cost") >>
         ELSE IF Contains(<<"battery">>, b.building_storage_type)
         THEN << InvestmentTerm("variable_storage_size", 3600 * 1000,
                                "storage_planning_energy_installation_cost"),
                 InvestmentTerm("variable_storage_peak_power", 1000,
                                "storage_planning_power_installation_cost"),
                 InvestmentTerm("variable_storage_exists", 1,
                                "storage_planning_fixed_installation_cost") >>
         ELSE <<>>
    ELSE IF pt = "load_reduction"
    THEN << InvestmentTerm("variable_load_reduction", 1, "-1") >>
    ELSE <<>>

\* ------------------------------------------------------------ state
VARIABLES
    building,                       \* the caller's building model
    phase,                          \* "idle", "constructed", "failed", "returned", "raised"
    error,                          \* the exception of the last call, or "none"
    problem_type,                   \* the arguments of the last __init__ call
    output_vector_reference,
    load_reduction_start_time,
    load_reduction_end_time,
    price_sensitivity_factor,
    price_sensitivity_timestep,
    electricity_price_timeseries,   \* self.electricity_price_timeseries
    problem,                        \* self.problem
    operation_cost,                 \* self.operation_cost: the terms added to 0.0
    investment_cost,                \* self.investment_cost: the terms added to 0.0
    operation_cost_factor,          \* self.operation_cost_factor
    result,                         \* self.result and the values the solver loaded
    returned                        \* what solve() returned

vars ==
    << building, phase, error, problem_type, output_vector_reference,
       load_reduction_start_time, load_reduction_end_time, price_sensitivity_factor,
       price_sensitivity_timestep, electricity_price_timeseries, problem, operation_cost,
       investment_cost, operation_cost_factor, result, returned >>

\* No instance: before the first construction, and after __init__ raised.
NoSeries == [id |-> NoneValue, data |-> <<>>]
NoProblem == [variables |-> {}, variable_storage_size |-> "absent", constraints |-> <<>>]
NoFactor == [num |-> 0, den |-> 1]
NoResult == [termination |-> "none", value |-> <<>>]
NoReturn ==
    [ control_vector |-> <<>>, state_vector |-> <<>>, output_vector |-> <<>>,
      operation_cost |-> "", investment_cost |-> "", storage_size |-> "" ]

\* ------------------------------------------------------------ __init__
\* The arguments of the calls considered.  A parameter that the problem type
\* does not read is left at its default, None.
StartTimes == {NoneValue, 0, 1000}
EndTimes == {NoneValue, 1, 1000}
References == {"None", "output_vector_reference"}
Factors == {NoneValue, 3}
SensitivityTimesteps == {NoneValue, 0, 2}

Arguments(pt, reference, start, end, factor, timestep) ==
    [ problem_type |-> pt, output_vector_reference |-> reference,
      load_reduction_start_time |-> start, load_reduction_end_time |-> end,
      price_sensitivity_factor |-> factor, price_sensitivity_timestep |-> timestep ]

ConstructorArguments ==
    { Arguments(pt, "None", NoneValue, NoneValue, NoneValue, NoneValue) :
        pt \in ProblemTypes \ {"load_reduction", "price_sensitivity"} }
    \cup { Arguments("load_reduction", r, s, e, NoneValue, NoneValue) :
             r \in References, s \in StartTimes, e \in EndTimes }
    \cup { Arguments("price_sensitivity", "None", NoneValue, NoneValue, f, t) :
             f \in Factors, t \in SensitivityTimesteps }

\* The exception __init__ raises, in the order of its statements, or "none".
ConstructError(b, own, a) ==
    IF Len(b.timesteps) < 2 THEN "IndexError"
    ELSE IF StateEquationKeyError(b) THEN "KeyError"
    ELSE IF a.problem_type = "load_reduction"
    THEN LoadReductionError(b, a.load_reduction_start_time, a.load_reduction_end_time,
                            a.output_vector_reference)
    ELSE IF a.problem_type = "price_sensitivity"
    THEN PriceSensitivityError(own, a.price_sensitivity_timestep,
                               a.price_sensitivity_factor)
    ELSE "none"

\* Lines 263-267: the instance's prices when the operation cost is accumulated.
InstancePrice(own, a) ==
    IF a.problem_type = "price_sensitivity"
    THEN PerturbedPrice(own.data, a.price_sensitivity_timestep, a.price_sensitivity_factor)
    ELSE own.data

\* OptimizationProblem(building, ...): lines 15-317.
Construct(a) ==
    LET own == SeriesCopy(building.electricity_price_timeseries)
        err == ConstructError(building, own, a)
        price == InstancePrice(own, a)
    IN  /\ problem_type' = a.problem_type
        /\ output_vector_reference' = a.output_vector_reference
        /\ load_reduction_start_time' = a.load_reduction_start_time
        /\ load_reduction_end_time' = a.load_reduction_end_time
        /\ price_sensitivity_factor' = a.price_sensitivity_factor
        /\ price_sensitivity_timestep' = a.price_sensitivity_timestep
        /\ result' = NoResult
        /\ returned' = NoReturn
        /\ error' = err
        /\ IF err = "none"
           THEN /\ phase' = "constructed"
                /\ electricity_price_timeseries' = [own EXCEPT !.data = price]
                /\ building' =
                     [building EXCEPT !.electricity_price_timeseries =
                                          AfterWrite(@, own, price)]
                /\ problem' =
                     [ variables |-> DeclaredVariables(a.problem_type),
                       variable_storage_size |-> StorageSizeAttribute(a.problem_type),
                       constraints |->
                           AllConstraints(building, a.problem_type,
                                          a.load_reduction_start_time,
                                          a.load_reduction_end_time) ]
                /\ operation_cost_factor' = OperationCostFactor(building, a.problem_type)
                /\ operation_cost' = OperationCost(building, a.problem_type, price)
                /\ investment_cost' = InvestmentCost(building, a.problem_type)
           ELSE /\ phase' = "failed"
                /\ electricity_price_timeseries' = NoSeries
                /\ building' = building
                /\ problem' = NoProblem
                /\ operation_cost_factor' = NoFactor
                /\ operation_cost' = <<>>
                /\ investment_cost' = <<>>

\* ------------------------------------------------------------ solve
\* Termination conditions the solver reports.
Terminations == {"optimal", "infeasible", "unbounded"}

\* The variables of the model: the indexed components that were declared.
VariableKeys(b, declared) ==
    { Var("variable_state_vector", t, n) : t \in Range(b.timesteps), n \in Range(b.states) }
    \cup { Var("variable_control_vector", t, n) :
             t \in Range(b.timesteps), n \in Range(b.controls) }
    \cup { Var("variable_output_vector", t, n) :
             t \in Range(b.timesteps), n \in Range(b.outputs) }
    \cup { ScalarVar(f) : f \in declared \ {"variable_state_vector", "variable_control_vector",
                                            "variable_output_vector"} }

\* The sets of variables the solver leaves without a value (.value is None)
\* that are considered: none, all, and one variable alone (the first control,
\* the first output or a scalar, at the first timestep).
UnassignedChoices(b, declared) ==
    { {}, VariableKeys(b, declared) }
    \cup { {k} : k \in { v \in VariableKeys(b, declared) :
                           /\ v.t = b.timesteps[1]
                           /\ v.op # "variable_state_vector"
                           /\ v.name \in {<<>>, b.controls[1], b.outputs[1]} } }

\* Lines 334-361: a DataFrame of 0.0, every cell then set to .value; a float
\* column stores None as NaN.
CellValue(value) == IF value = "None" THEN "NaN" ELSE value

Table(b, family, names, value) ==
    [ cell \in Range(b.timesteps) \X Range(names) |->
        CellValue(value[Var(family, cell[1], cell[2])]) ]

\* pyo.value(expression) raises ValueError when a variable of it has no value.
OperationCostUnvalued(cost, value) ==
    \E i \in 1..Len(cost) :
        value[Var("variable_output_vector", cost[i].timestep, cost[i].output)] = "None"

InvestmentCostUnvalued(cost, value) ==
    \E i \in 1..Len(cost) : value[ScalarVar(cost[i].variable)] = "None"

\* Lines 364-371: the float 0.0 itself, or the value of the expression.
CostValue(cost) == IF cost = <<>> THEN "0.0" ELSE "pyo.value"

\* Lines 374-379: the value of the variable, the element of the list [0.0] of
\* line 75, or None.
StorageSize(pt, value) ==
    IF pt = "storage_planning" THEN value[ScalarVar("variable_storage_size")]
    ELSE IF pt = "storage_planning_baseline" THEN "0.0"
    ELSE "None"

\* solve(): lines 319-391.
Solve(termination, unassigned) ==
    LET value == [ k \in VariableKeys(building, problem.variables) |->
                     IF k \in unassigned THEN "None" ELSE "1.0" ]
        raises == \/ OperationCostUnvalued(operation_cost, value)
                  \/ InvestmentCostUnvalued(investment_cost, value)
    IN  /\ phase = "constructed"
        /\ result' = [termination |-> termination, value |-> value]
        /\ IF raises
           THEN /\ phase' = "raised"
                /\ error' = "ValueError"
                /\ returned' = NoReturn
           ELSE /\ phase' = "returned"
                /\ error' = "none"
                /\ returned' =
                     [ control_vector |->
                           Table(building, "variable_control_vector", building.controls, value),
                       state_vector |->
                           Table(building, "variable_state_vector", building.states, value),
                       output_vector |->
                           Table(building, "variable_output_vector", building.outputs, value),
                       operation_cost |-> CostValue(operation_cost),
                       investment_cost |-> CostValue(investment_cost),
                       storage_size |->
                           StorageSize(problem_type, value) ]
        /\ UNCHANGED << building, problem_type, output_vector_reference,
                        load_reduction_start_time, load_reduction_end_time,
                        price_sensitivity_factor, price_sensitivity_timestep,
                        electricity_price_timeseries, problem, operation_cost,
                        investment_cost, operation_cost_factor >>

\* ------------------------------------------------------------ specification
Init ==
    /\ building \in Buildings
    /\ phase = "idle"
    /\ error = "none"
    /\ problem_type = ""
    /\ output_vector_reference = "None"
    /\ load_reduction_start_time = NoneValue
    /\ load_reduction_end_time = NoneValue
    /\ price_sensitivity_factor = NoneValue
    /\ price_sensitivity_timestep = NoneValue
    /\ electricity_price_timeseries = NoSeries
    /\ problem = NoProblem
    /\ operation_cost = <<>>
    /\ investment_cost = <<>>
    /\ operation_cost_factor = NoFactor
    /\ result = NoResult
    /\ returned = NoReturn

Next ==
    \/ \E a \in ConstructorArguments : Construct(a)
    \/ \E termination \in Terminations :
           \E unassigned \in UnassignedChoices(building, problem.variables) :
               Solve(termination, unassigned)

Spec == Init /\ [][Next]_vars

\* ------------------------------------------------------------ properties
\* An instance exists: __init__ returned.
Constructed == phase \in {"constructed", "returned", "raised"}

\* The positions of the constraint list that hold the constraint c.
Positions(c) == {i \in DOMAIN problem.constraints : problem.constraints[i] = c}

\* A parameter that the problem type requires is None.
ParameterMissing ==
    \/ /\ problem_type = "load_reduction"
       /\ \/ load_reduction_start_time = NoneValue
          \/ load_reduction_end_time = NoneValue
          \/ output_vector_reference = "None"
    \/ /\ problem_type = "price_sensitivity"
       /\ \/ price_sensitivity_factor = NoneValue
          \/ price_sensitivity_timestep = NoneValue

\* C1: whenever a parameter that the problem type requires is None, the
\* construction has failed with an error and has left no model.
C1_MissingParameterFails ==
    (phase # "idle" /\ ParameterMissing) =>
        (phase = "failed" /\ error # "none" /\ problem = NoProblem)

\* C2: solve() returns the extracted results only after an optimal termination.
C2_ExtractionOnlyAfterOptimal ==
    phase = "returned" => result.termination = "optimal"

\* C3: every table that solve() returns has one cell per timestep and name, no
\* cell is missing (NaN), and the cell of a variable without a value is 0.0.
C3_TablesComplete ==
    phase = "returned" =>
        /\ DOMAIN returned.control_vector
             = Range(building.timesteps) \X Range(building.controls)
        /\ DOMAIN returned.state_vector
             = Range(building.timesteps) \X Range(building.states)
        /\ DOMAIN returned.output_vector
             = Range(building.timesteps) \X Range(building.outputs)
        /\ \A c \in DOMAIN returned.control_vector :
             /\ returned.control_vector[c] # "NaN"
             /\ result.value[Var("variable_control_vector", c[1], c[2])] = "None"
                  => returned.control_vector[c] = "0.0"
        /\ \A c \in DOMAIN returned.state_vector :
             /\ returned.state_vector[c] # "NaN"
             /\ result.value[Var("variable_state_vector", c[1], c[2])] = "None"
                  => returned.state_vector[c] = "0.0"
        /\ \A c \in DOMAIN returned.output_vector :
             /\ returned.output_vector[c] # "NaN"
             /\ result.value[Var("variable_output_vector", c[1], c[2])] = "None"
                  => returned.output_vector[c] = "0.0"

\* C4: the constraint list of a constructed problem holds, for each state, one
\* equality of the state at timesteps[0] with state_vector_initial and N-1
\* state equations, one for each pair of consecutive timesteps, that defines
\* the state at the later from the state equation at the earlier; no state
\* equation refers to a timestep outside the horizon.
C4_Dynamics ==
    Constructed =>
        LET cons == problem.constraints
            ts == building.timesteps
            initials == {i \in DOMAIN cons : cons[i].rhs.op = "state_vector_initial"}
            equations == {i \in DOMAIN cons : cons[i].rhs.op = "state_equation"}
        IN  /\ Cardinality(initials) = Len(building.states)
            /\ Cardinality(equations) = Len(building.states) * (Len(ts) - 1)
            /\ \A s \in Range(building.states) :
                 /\ Cardinality(Positions(
                        [ lhs |-> [op |-> "variable_state_vector", t |-> ts[1],
                                   name |-> s, arg |-> ""],
                          rel |-> "==",
                          rhs |-> [op |-> "state_vector_initial", t |-> 0,
                                   name |-> s, arg |-> ""] ])) = 1
                 /\ Cardinality({i \in equations : cons[i].rhs.name = s}) = Len(ts) - 1
                 /\ \A k \in 1..(Len(ts) - 1) :
                      Cardinality(Positions(
                        [ lhs |-> [op |-> "variable_state_vector", t |-> ts[k + 1],
                                   name |-> s, arg |-> ""],
                          rel |-> "==",
                          rhs |-> [op |-> "state_equation", t |-> ts[k],
                                   name |-> s, arg |-> ""] ])) = 1
            /\ \A i \in equations :
                 /\ cons[i].lhs.t \in Range(ts)
                 /\ cons[i].rhs.t \in Range(ts)

\* A problem over a horizon of three daily timesteps was constructed.
C4_Witness ==
    /\ phase = "constructed"
    /\ Len(building.timesteps) >= 3
    /\ building.timesteps[2] = 24

\* The number of constraints  output[timestep] rel bound[timestep].
BoundCount(timestep, output, rel, bound) ==
    Cardinality(Positions(
        [ lhs |-> [op |-> "variable_output_vector", t |-> timestep,
                   name |-> output, arg |-> ""],
          rel |-> rel,
          rhs |-> [op |-> bound, t |-> timestep, name |-> output, arg |-> ""] ]))

\* C5 as claimed: for every output and timestep the list holds either the
\* lower bound or the pinning equality: the equality for a temperature output
\* at a timestep other than timesteps[0] under maximum_load, the lower bound
\* in every other case.
C5_LowerBoundOrPin ==
    Constructed =>
        \A o \in Range(building.outputs) : \A t \in Range(building.timesteps) :
            LET lower == BoundCount(t, o, ">=", "output_constraint_timeseries_minimum")
                pin == BoundCount(t, o, "==", "output_constraint_timeseries_minimum")
            IN  IF /\ Contains(<<"temperature">>, o)
                   /\ problem_type = "maximum_load"
                   /\ t # building.timesteps[1]
                THEN pin = 1 /\ lower = 0
                ELSE pin = 0 /\ lower = 1

\* C5 as amended: a temperature output under maximum_load has the pinning
\* equality at every timestep other than timesteps[0] and neither constraint
\* at timesteps[0]; every other output, and every output under another
\* problem type, has the lower bound and no equality.
C5_LowerBoundPinOrNone ==
    Constructed =>
        \A o \in Range(building.outputs) : \A t \in Range(building.timesteps) :
            LET lower == BoundCount(t, o, ">=", "output_constraint_timeseries_minimum")
                pin == BoundCount(t, o, "==", "output_constraint_timeseries_minimum")
            IN  IF Contains(<<"temperature">>, o) /\ problem_type = "maximum_load"
                THEN IF t = building.timesteps[1]
                     THEN pin = 0 /\ lower = 0
                     ELSE pin = 1 /\ lower = 0
                ELSE pin = 0 /\ lower = 1

\* A maximum_load problem was constructed over a horizon of three timesteps,
\* with a temperature output and an output that is no temperature.
C5_Witness ==
    /\ phase = "constructed"
    /\ problem_type = "maximum_load"
    /\ Len(building.timesteps) >= 3
    /\ \E o \in Range(building.outputs) : Contains(<<"temperature">>, o)
    /\ \E o \in Range(building.outputs) : ~Contains(<<"temperature">>, o)

\* C6: for every output and timestep the list holds exactly one upper bound:
\* storage size times water density or depth of discharge for a state of
\* charge output under the storage planning types, the maximum timeseries
\* otherwise.
C6_OneUpperBound ==
    Constructed =>
        \A o \in Range(building.outputs) : \A t \in Range(building.timesteps) :
            LET cons == problem.constraints
                upper == { i \in DOMAIN cons :
                             /\ cons[i].rel = "<="
                             /\ cons[i].lhs = [op |-> "variable_output_vector", t |-> t,
                                               name |-> o, arg |-> ""] }
            IN  /\ Cardinality(upper) = 1
                /\ \A i \in upper :
                     IF /\ problem_type \in {"storage_planning", "storage_planning_baseline"}
                        /\ Contains(<<"state", "of", "charge">>, o)
                     THEN \/ /\ cons[i].rhs.op = "variable_storage_size_times"
                             /\ cons[i].rhs.arg \in
                                  {"water_density", "storage_battery_depth_of_discharge"}
                          \/ /\ problem_type = "storage_planning_baseline"
                             /\ cons[i].rhs = [op |-> "literal", t |-> 0, name |-> <<>>,
                                               arg |-> "0.0"]
                     ELSE cons[i].rhs = [op |-> "output_constraint_timeseries_maximum",
                                         t |-> t, name |-> o, arg |-> ""]

\* The operation cost factor the problem type is said to have.
ClaimedFactor ==
    IF problem_type \in {"storage_planning", "storage_planning_baseline"}
    THEN [ num |-> 31556952 * building.storage_lifetime * 14,
           den |-> ((building.timesteps[2] - building.timesteps[1]) * 3600)
                   * Len(building.timesteps) ]
    ELSE IF problem_type = "load_reduction"
    THEN [num |-> 1, den |-> 1000000]
    ELSE [num |-> 1, den |-> 1]

\* C7: the operation cost has one term for each selected (timestep, output)
\* pair and none for another: under minimum_load and maximum_load the output
\* grid_electric_power alone, unweighted; under every other type each electric
\* power output that is no storage-to-zone transfer, weighted by the timestep
\* length in hours, the price of the timestep and the operation cost factor.
C7_OperationCostTerms ==
    Constructed =>
        /\ operation_cost_factor = ClaimedFactor
        /\ \A o \in Range(building.outputs) : \A t \in Range(building.timesteps) :
            LET terms == { i \in DOMAIN operation_cost :
                             /\ operation_cost[i].timestep = t
                             /\ operation_cost[i].output = o }
            IN  IF problem_type \in {"minimum_load", "maximum_load"}
                THEN IF o = <<"grid", "electric", "power">>
                     THEN /\ Cardinality(terms) = 1
                          /\ \A i \in terms : ~operation_cost[i].weighted
                     ELSE terms = {}
                ELSE IF /\ Contains(<<"electric", "power">>, o)
                        /\ ~Contains(<<"storage", "to", "zone">>, o)
                     THEN /\ Cardinality(terms) = 1
                          /\ \A i \in terms :
                               /\ operation_cost[i].weighted
                               /\ operation_cost[i].seconds =
                                    (building.timesteps[2] - building.timesteps[1]) * 3600
                               /\ operation_cost[i].price =
                                    electricity_price_timeseries.data[t]
                               /\ operation_cost[i].factor = ClaimedFactor
                     ELSE terms = {}

\* C8: the building's price series never changes; the instance's copy holds
\* the building's prices, with the price of the target timestep alone
\* multiplied by the factor under price_sensitivity; and the terms of the
\* operation cost carry the prices of the copy.
C8_PriceCopy ==
    /\ building.electricity_price_timeseries.data = BuildingPrice(building.timesteps)
    /\ Constructed =>
         /\ electricity_price_timeseries.data =
              [ t \in Range(building.timesteps) |->
                  IF problem_type = "price_sensitivity" /\ t = price_sensitivity_timestep
                  THEN BuildingPrice(building.timesteps)[t] * price_sensitivity_factor
                  ELSE BuildingPrice(building.timesteps)[t] ]
         /\ \A i \in DOMAIN operation_cost :
              operation_cost[i].weighted =>
                  operation_cost[i].price =
                      electricity_price_timeseries.data[operation_cost[i].timestep]

\* A price_sensitivity problem that perturbs the price of a later timestep
\* was constructed and solved.
C8_Witness ==
    /\ phase = "returned"
    /\ problem_type = "price_sensitivity"
    /\ price_sensitivity_timestep = 2
    /\ electricity_price_timeseries.data[2] = 12
    /\ building.electricity_price_timeseries.data[2] = 4

\* C9: under storage_planning_baseline solve() returns, whatever the solver
\* did, with storage size 0.0 and investment cost 0.0; no storage variable is
\* declared and every upper bound of a state of charge output is output <= 0.
C9_BaselineZero ==
    (problem_type = "storage_planning_baseline" /\ phase \in {"returned", "raised"}) =>
        /\ phase = "returned"
        /\ returned.storage_size = "0.0"
        /\ returned.investment_cost = "0.0"
        /\ problem.variables \cap {"variable_storage_size", "variable_storage_peak_power",
                                   "variable_storage_exists"} = {}
        /\ \A i \in DOMAIN problem.constraints :
             (/\ problem.constraints[i].rel = "<="
              /\ Contains(<<"state", "of", "charge">>, problem.constraints[i].lhs.name))
             => problem.constraints[i].rhs =
                    [op |-> "literal", t |-> 0, name |-> <<>>, arg |-> "0.0"]

\* C10: a problem type outside the documented ones raises no error of its own
\* and yields the model of 'operation': its variables, its constraint list,
\* operation cost factor 1.0, its operation cost, no investment cost, and a
\* storage size of None.
C10_UnknownTypeIsOperation ==
    (problem_type \notin DocumentedTypes /\ phase # "idle") =>
        /\ phase = "failed" => Len(building.timesteps) < 2
        /\ Constructed =>
             /\ problem.variables = {"variable_state_vector", "variable_control_vector",
                                     "variable_output_vector"}
             /\ problem.variable_storage_size = "absent"
             /\ problem.constraints =
                  AllConstraints(building, "operation", NoneValue, NoneValue)
             /\ operation_cost_factor = [num |-> 1, den |-> 1]
             /\ operation_cost =
                  OperationCost(building, "operation", BuildingPrice(building.timesteps))
             /\ operation_cost # <<>>
             /\ investment_cost = <<>>
        /\ phase = "returned" =>
             /\ returned.storage_size = "None"
             /\ returned.investment_cost = "0.0"

\* A problem of an undocumented type was constructed and solved.
C10_Witness ==
    /\ phase = "returned"
    /\ problem_type = "operation_baseline"
    /\ Len(building.timesteps) >= 3

====
